---- MODULE Spec2Model ----
(***************************************************************************)
(* A model of dotenv/mod.ts: the line parser (parse), the two loaders      *)
(* (configSync, config), safe-mode validation (assertSafe) and the export  *)
(* into the process environment (Deno.env); and of the Node-compat exists   *)
(* and existsSync.                                                         *)
(*                                                                         *)
(* Strings of the program are sequences of one-character strings, so that  *)
(* the regular expressions can be evaluated character by character.        *)
(* A DotenvConfig (a JavaScript object with string keys) is a sequence of  *)
(* [key, value] records in insertion order, without duplicate keys.        *)
(***************************************************************************)
EXTENDS Integers, Sequences, FiniteSets, TLC

\* ------------------------------------------------------------------------
\* Characters
\* ------------------------------------------------------------------------

Lower == {"a", "b", "c", "d", "e", "f", "g", "h", "i", "j", "k", "l", "m",
          "n", "o", "p", "q", "r", "s", "t", "u", "v", "w", "x", "y", "z"}

Upper == {"A", "B", "C", "D", "E", "F", "G", "H", "I", "J", "K", "L", "M",
          "N", "O", "P", "Q", "R", "S", "T", "U", "V", "W", "X", "Y", "Z"}

Digit == {"0", "1", "2", "3", "4", "5", "6", "7", "8", "9"}

\* \s of a JavaScript regular expression (the members a text here can hold).
WhiteSpace == {" ", "\t", "\r", "\n"}

\* [a-zA-Z_]
IdentStart == Lower \cup Upper \cup {"_"}

\* [a-zA-Z_0-9 ]
IdentChar == IdentStart \cup Digit \cup {" "}

\* ["']
Quote == {"\"", "'"}

\* . of a JavaScript regular expression without the s flag: any character
\* but a line terminator; (.|\n) adds the newline back.
DotOrNewline(c) == c # "\r"

\* ------------------------------------------------------------------------
\* DotenvConfig: an object with own string-keyed properties
\* ------------------------------------------------------------------------

\* The property names every object literal {} inherits from Object.prototype.
ObjectPrototypeKeys ==
  { <<"c","o","n","s","t","r","u","c","t","o","r">>,
    <<"t","o","S","t","r","i","n","g">>,
    <<"t","o","L","o","c","a","l","e","S","t","r","i","n","g">>,
    <<"v","a","l","u","e","O","f">>,
    <<"h","a","s","O","w","n","P","r","o","p","e","r","t","y">>,
    <<"i","s","P","r","o","t","o","t","y","p","e","O","f">>,
    <<"p","r","o","p","e","r","t","y","I","s","E","n","u","m","e","r","a","b","l","e">>,
    <<"_","_","p","r","o","t","o","_","_">>,
    <<"_","_","d","e","f","i","n","e","G","e","t","t","e","r","_","_">>,
    <<"_","_","d","e","f","i","n","e","S","e","t","t","e","r","_","_">>,
    <<"_","_","l","o","o","k","u","p","G","e","t","t","e","r","_","_">>,
    <<"_","_","l","o","o","k","u","p","S","e","t","t","e","r","_","_">> }

ProtoKey == <<"_","_","p","r","o","t","o","_","_">>

\* Object.keys(obj): the own keys, in insertion order.
ObjectKeys(obj) == [i \in DOMAIN obj |-> obj[i].key]

KeySet(obj) == {obj[i].key : i \in DOMAIN obj}

HasOwn(obj, key) == \E i \in DOMAIN obj : obj[i].key = key

\* obj[key] for an own key.
Get(obj, key) == obj[CHOOSE i \in DOMAIN obj : obj[i].key = key].value

\* key in obj: own properties and those inherited from Object.prototype.
InOp(key, obj) == HasOwn(obj, key) \/ key \in ObjectPrototypeKeys

\* obj[key] = value for a string value: an own property is overwritten in
\* place, a new one is appended; assigning a string to __proto__ is ignored
\* by the inherited setter.
SetProp(obj, key, value) ==
  IF key = ProtoKey THEN obj
  ELSE IF HasOwn(obj, key)
       THEN [i \in DOMAIN obj |->
               IF obj[i].key = key THEN [key |-> key, value |-> value] ELSE obj[i]]
       ELSE Append(obj, [key |-> key, value |-> value])

\* ------------------------------------------------------------------------
\* Completions: how a call ends
\* ------------------------------------------------------------------------

NoError == [name |-> "none", missing |-> <<>>, hint |-> FALSE]

Return(conf) == [type |-> "return", conf |-> conf, error |-> NoError]

Throw(error) == [type |-> "throw", conf |-> <<>>, error |-> error]

TypeError == [name |-> "TypeError", missing |-> <<>>, hint |-> FALSE]

\* ------------------------------------------------------------------------
\* parse
\* ------------------------------------------------------------------------

\* rawDotenv.split("\n")
RECURSIVE Split(_)
Split(s) ==
  IF \E i \in DOMAIN s : s[i] = "\n"
  THEN LET i == CHOOSE j \in DOMAIN s :
                  s[j] = "\n" /\ \A k \in 1..(j - 1) : s[k] # "\n"
       IN  <<SubSeq(s, 1, i - 1)>> \o Split(SubSeq(s, i + 1, Len(s)))
  ELSE <<s>>

\* RE_VariableStart.test(line): /^\s*[a-zA-Z_][a-zA-Z_0-9 ]*\s*=/
RE_VariableStart(line) ==
  \E eq \in DOMAIN line :
    /\ line[eq] = "="
    /\ \E st \in 1..(eq - 1) :
         /\ \A t \in 1..(st - 1) : line[t] \in WhiteSpace
         /\ line[st] \in IdentStart
         /\ \E en \in st..(eq - 1) :
              /\ \A t \in (st + 1)..en : line[t] \in IdentChar
              /\ \A t \in (en + 1)..(eq - 1) : line[t] \in WhiteSpace

\* The key of RE_KeyValue starting at position p and of length n:
\* (?<key>[^\s]+?)\s{0,}= , n characters that are no whitespace, then
\* whitespace up to an "=".
KeyAt(line, p, n) ==
  /\ p + n - 1 <= Len(line)
  /\ \A t \in p..(p + n - 1) : line[t] \notin WhiteSpace
  /\ \E eq \in (p + n)..Len(line) :
       /\ line[eq] = "="
       /\ \A t \in (p + n)..(eq - 1) : line[t] \in WhiteSpace

\* Undefined capture group: the empty set; a group that took part: {text}.
Undefined == {}

MinOf(S) == CHOOSE x \in S : \A y \in S : x <= y

MaxOf(S) == CHOOSE x \in S : \A y \in S : y <= x

\* The positions from which (?<key>[^\s]+?)\s{0,}= matches.
KeyStarts(line) == {p \in DOMAIN line : \E n \in 1..Len(line) : KeyAt(line, p, n)}

\* The key is lazy: the shortest one from p.
KeyLen(line, p) == MinOf({m \in 1..Len(line) : KeyAt(line, p, m)})

\* The "=" that ends the whitespace after the key.
EqAfter(line, from) == MinOf({e \in from..Len(line) : line[e] = "="})

\* \ {0,} is greedy: the first position after "=" that holds no space.
ValueStart(line, eq) ==
  MinOf({w \in (eq + 1)..(Len(line) + 1) : w = Len(line) + 1 \/ line[w] # " "})

\* The quotes that can close a value opened at v: ["'](.|\n){0,}["']
Closes(line, v) ==
  {c \in (v + 1)..Len(line) :
     line[c] \in Quote /\ \A t \in (v + 1)..(c - 1) : DotOrNewline(line[t])}

\* [^#]{0,} from v: up to the first "#" or the end of the line.
UnquotedStop(line, v) ==
  MinOf({h \in v..(Len(line) + 1) : h = Len(line) + 1 \/ line[h] = "#"})

\* The value alternative at v: the quoted one is tried first and its content
\* is greedy (up to the last quote the content can reach); otherwise the
\* unquoted one, which always matches.
GroupsOfValue(line, key, v) ==
  IF v <= Len(line) /\ line[v] \in Quote /\ Closes(line, v) # {}
  THEN [key |-> key,
        quotedValue |-> {SubSeq(line, v + 1, MaxOf(Closes(line, v)) - 1)},
        unQuotedValue |-> Undefined]
  ELSE [key |-> key,
        quotedValue |-> Undefined,
        unQuotedValue |-> {SubSeq(line, v, UnquotedStop(line, v) - 1)}]

GroupsOfKey(line, p, n) ==
  GroupsOfValue(line, SubSeq(line, p, p + n - 1),
                ValueStart(line, EqAfter(line, p + n)))

\* line.match(RE_KeyValue)?.groups. The match is the leftmost one and the
\* leading \s{0,} is greedy, so the key starts at the first position that is
\* no whitespace and from which a key reaches an "=". Undefined when nothing
\* matches.
RE_KeyValue(line) ==
  IF KeyStarts(line) = {} THEN Undefined
  ELSE {GroupsOfKey(line, MinOf(KeyStarts(line)), KeyLen(line, MinOf(KeyStarts(line))))}

\* str.replaceAll("\\n", "\n")
RECURSIVE expandNewlines(_)
expandNewlines(str) ==
  IF Len(str) < 2 THEN str
  ELSE IF str[1] = "\\" /\ str[2] = "n"
       THEN <<"\n">> \o expandNewlines(SubSeq(str, 3, Len(str)))
       ELSE <<str[1]>> \o expandNewlines(Tail(str))

\* String.prototype.trim
RECURSIVE trim(_)
trim(str) ==
  IF str = <<>> THEN str
  ELSE IF str[1] \in WhiteSpace THEN trim(Tail(str))
  ELSE IF str[Len(str)] \in WhiteSpace THEN trim(SubSeq(str, 1, Len(str) - 1))
  ELSE str

TheOne(S) == CHOOSE x \in S : TRUE

\* env[newKey] = quotedValue ? expandNewlines(quotedValue) : unQuotedValue.trim()
\* An empty quotedValue is falsy; trim on an undefined unQuotedValue throws a
\* TypeError.
parseAssign(env, g) ==
  IF g.quotedValue # Undefined /\ g.quotedValue # {<<>>}
  THEN Return(SetProp(env, g.key, expandNewlines(TheOne(g.quotedValue))))
  ELSE IF g.unQuotedValue = Undefined THEN Throw(TypeError)
  ELSE Return(SetProp(env, g.key, trim(TheOne(g.unQuotedValue))))

\* const { key, quotedValue, unQuotedValue } = groups: destructuring
\* undefined throws a TypeError.
parseGroups(env, groups) ==
  IF groups = Undefined THEN Throw(TypeError) ELSE parseAssign(env, TheOne(groups))

\* One iteration of the loop of parse over a line that passed
\* RE_VariableStart, on the object built so far.
parseLine(env, line) == parseGroups(env, RE_KeyValue(line))

RECURSIVE parseLines(_, _)
RECURSIVE parseRest(_, _)

\* The loop of parse goes on after an iteration that ended as r.
parseRest(r, lines) ==
  IF r.type = "throw" THEN r ELSE parseLines(r.conf, lines)

\* for (const line of lines) { if (!RE_VariableStart.test(line)) continue; ... }
parseLines(env, lines) ==
  IF lines = <<>> THEN Return(env)
  ELSE IF ~RE_VariableStart(Head(lines)) THEN parseLines(env, Tail(lines))
  ELSE parseRest(parseLine(env, Head(lines)), Tail(lines))

\* parse(rawDotenv)
parse(rawDotenv) == parseLines(<<>>, Split(rawDotenv))

\* ------------------------------------------------------------------------
\* The world: files, the runtime, the process environment, the loaders
\* ------------------------------------------------------------------------

VARIABLES
  fs,                      \* path -> what reading the file gives
  readFileSyncIsFunction,  \* typeof Deno.readFileSync === "function"
  env,                     \* Deno.env: key -> value
  env0,                    \* the process environment before the first call
  loaders,                 \* the loaders of the program
  ncalls,                  \* loader -> the calls it has made so far
  pc,                      \* loader -> where its call stands
  variant,                 \* loader -> "configSync" or "config"
  o,                       \* loader -> the resolved options of its call
  conf,                    \* loader -> the conf object of its call
  result,                  \* loader -> the completion of its call
  again                    \* loader -> whether its call repeats its call
                           \* before (same variant, same options) and, if
                           \* so, how that call ended

\* A caller of parse.
VARIABLES
  rawDotenv,               \* the text handed to parse
  parsed                   \* the completion of parse(rawDotenv)

\* The callers of the Node-compat exists and existsSync.
VARIABLES
  lstat,                   \* path -> what Deno.lstat and Deno.lstatSync give
  probe,                   \* call -> where the call of exists stands, its path
                           \* and the invocations of its callback so far
  probeSync                \* call -> the path and completion of its existsSync

loaderVars == <<fs, readFileSyncIsFunction, env, env0, loaders, ncalls, pc, variant,
                o, conf, result, again>>

parseVars == <<rawDotenv, parsed>>

existsVars == <<lstat, probe, probeSync>>

vars == <<loaderVars, parseVars, existsVars>>

\* The most calls made in one behaviour.
MaxCalls == 2

Loaders == {"l1", "l2"}

\* Strings of the model.
kA == <<"A">>
kB == <<"B">>
Empty == <<>>

\* File contents.
TxtA1 == <<"A", "=", "1">>
TxtA2 == <<"A", "=", "2">>
TxtAEmpty == <<"A", "=">>
TxtA2B3 == <<"A", "=", "2", "\n", "B", "=", "3">>
TxtBEmptyQuotes == <<"B", "=", "\"", "\"">>
TxtToString == <<"t", "o", "S", "t", "r", "i", "n", "g", "=", "x", "\n", "B", "=", "3">>
TxtExampleBA == <<"B", "=", "\n", "A", "=">>

NotFound == [kind |-> "NotFound", text |-> <<>>]
PermissionDenied == [kind |-> "PermissionDenied", text |-> <<>>]
Interrupted == [kind |-> "Interrupted", text |-> <<>>]
File(text) == [kind |-> "File", text |-> text]

Paths == {".env", ".env.local", ".env.defaults", ".env.example"}

\* The error a failed read throws: Deno.errors.<kind>.
ReadError(kind) == [name |-> kind, missing |-> <<>>, hint |-> FALSE]

\* ------------------------------------------------------------------------
\* Reading and parsing a file
\* ------------------------------------------------------------------------

\* new TextDecoder("utf-8").decode(Deno.readFileSync(filepath)) or its
\* asynchronous twin, then parse, inside the try block.
readAndParse(filepath) ==
  IF fs[filepath].kind = "File" THEN parse(fs[filepath].text)
  ELSE Throw(ReadError(fs[filepath].kind))

\* A catch that rethrows everything.
catchNothing(r) == r

\* A catch that swallows everything.
catchEverything(r) == IF r.type = "throw" THEN Return(<<>>) ELSE r

\* catch (e): a Deno.errors.NotFound gives {}, anything else is rethrown.
catchNotFound(r) ==
  IF r.type = "throw" /\ r.error.name = "NotFound" THEN Return(<<>>) ELSE r

\* parseFile(filepath)
parseFile(filepath) ==
  IF ~readFileSyncIsFunction THEN Return(<<>>)
  ELSE catchNotFound(readAndParse(filepath))

\* parseFileAsync(filepath), once the read has settled
parseFileAsync(filepath) == catchNotFound(readAndParse(filepath))

\* ------------------------------------------------------------------------
\* The loops of configSync and config
\* ------------------------------------------------------------------------

\* configSync: for (const key in confDefaults) if (!(key in conf)) ...
RECURSIVE configSyncDefaults(_, _)
configSyncDefaults(c, confDefaults) ==
  IF confDefaults = <<>> THEN c
  ELSE LET key == Head(confDefaults).key
       IN  configSyncDefaults(
             IF ~InOp(key, c) THEN SetProp(c, key, Head(confDefaults).value) ELSE c,
             Tail(confDefaults))

\* The loop without its guard: the defaults overwrite.
RECURSIVE configDefaultsOverwrite(_, _)
configDefaultsOverwrite(c, confDefaults) ==
  IF confDefaults = <<>> THEN c
  ELSE configDefaultsOverwrite(
         SetProp(c, Head(confDefaults).key, Head(confDefaults).value),
         Tail(confDefaults))

\* config: the same loop
RECURSIVE configDefaults(_, _)
configDefaults(c, confDefaults) ==
  IF confDefaults = <<>> THEN c
  ELSE LET key == Head(confDefaults).key
       IN  configDefaults(
             IF ~InOp(key, c) THEN SetProp(c, key, Head(confDefaults).value) ELSE c,
             Tail(confDefaults))

\* Deno.env.set(key, value)
EnvSet(e, key, value) == [k \in DOMAIN e \cup {key} |-> IF k = key THEN value ELSE e[k]]

\* The export loop without its guard: every key of conf is set.
RECURSIVE configSyncExportOverwrite(_, _, _)
configSyncExportOverwrite(c, i, e) ==
  IF i > Len(c) THEN [conf |-> c, env |-> e]
  ELSE configSyncExportOverwrite(c, i + 1, EnvSet(e, c[i].key, c[i].value))

\* The export loop that also copies the value of the process environment
\* into conf for a key that is already defined.
RECURSIVE configSyncExportOverlay(_, _, _)
configSyncExportOverlay(c, i, e) ==
  IF i > Len(c) THEN [conf |-> c, env |-> e]
  ELSE IF c[i].key \in DOMAIN e
       THEN configSyncExportOverlay(SetProp(c, c[i].key, e[c[i].key]), i + 1, e)
       ELSE configSyncExportOverlay(c, i + 1, EnvSet(e, c[i].key, c[i].value))

\* The export loop that takes out of conf a key the process environment
\* already defines.
RECURSIVE configSyncExportDropDefined(_, _, _)
configSyncExportDropDefined(c, i, e) ==
  IF i > Len(c) THEN [conf |-> c, env |-> e]
  ELSE IF c[i].key \in DOMAIN e
       THEN configSyncExportDropDefined(SubSeq(c, 1, i - 1) \o SubSeq(c, i + 1, Len(c)), i, e)
       ELSE configSyncExportDropDefined(c, i + 1, EnvSet(e, c[i].key, c[i].value))

\* configSync: for (const key in conf) { if (Deno.env.get(key) !== undefined)
\* continue; Deno.env.set(key, conf[key]); }, from the i-th entry of conf on:
\* what the loop leaves in conf and in the process environment e.
RECURSIVE configSyncExport(_, _, _)
configSyncExport(c, i, e) ==
  IF i > Len(c) THEN [conf |-> c, env |-> e]
  ELSE IF c[i].key \in DOMAIN e
       THEN configSyncExport(c, i + 1, e)
       ELSE configSyncExport(c, i + 1, EnvSet(e, c[i].key, c[i].value))

\* The loop of config without its guard.
RECURSIVE configExportOverwrite(_, _, _)
configExportOverwrite(c, i, e) ==
  IF i > Len(c) THEN [conf |-> c, env |-> e]
  ELSE configExportOverwrite(c, i + 1, EnvSet(e, c[i].key, c[i].value))

\* config: the same loop
RECURSIVE configExport(_, _, _)
configExport(c, i, e) ==
  IF i > Len(c) THEN [conf |-> c, env |-> e]
  ELSE IF c[i].key \in DOMAIN e
       THEN configExport(c, i + 1, e)
       ELSE configExport(c, i + 1, EnvSet(e, c[i].key, c[i].value))

\* ------------------------------------------------------------------------
\* assertSafe
\* ------------------------------------------------------------------------

\* Object.assign({}, currentEnv, c): the later source overwrites the earlier.
ObjectAssign(currentEnv, c) ==
  [k \in DOMAIN currentEnv \cup KeySet(c) |->
     IF HasOwn(c, k) THEN Get(c, k) ELSE currentEnv[k]]

\* removeEmptyValues(obj) of util.ts: obj without the entries whose value is empty.
removeEmptyValues(obj) == [k \in {x \in DOMAIN obj : obj[x] # <<>>} |-> obj[k]]

\* difference(arrA, arrB) of util.ts: the members of arrA that are not in
\* arrB, in the order of arrA (arrB is given by its members).
difference(arrA, arrB) == SelectSeq(arrA, LAMBDA a : a \notin arrB)

\* new MissingEnvVarsError(errorMessages.filter(Boolean).join("\n\n")): the
\* message lists the missing keys, says "Make sure to add them to your env
\* file." (remedy) and, unless empty values are allowed, hints at the
\* allowEmptyValues option (hint).
MissingEnvVarsError(missing, allowEmptyValues) ==
  [name |-> "MissingEnvVarsError", missing |-> missing, remedy |-> TRUE,
   hint |-> ~allowEmptyValues]

\* allowEmptyValues ? confWithEnv : removeEmptyValues(confWithEnv)
checkedConf(confWithEnv, allowEmptyValues) ==
  IF allowEmptyValues THEN confWithEnv ELSE removeEmptyValues(confWithEnv)

\* if (missing.length > 0) throw new MissingEnvVarsError(...)
throwIfMissing(missing, allowEmptyValues) ==
  IF Len(missing) > 0 THEN Throw(MissingEnvVarsError(missing, allowEmptyValues))
  ELSE Return(<<>>)

\* assertSafe(conf, confExample, allowEmptyValues), run against the process
\* environment e (Deno.env.toObject()).
assertSafe(c, confExample, allowEmptyValues, e) ==
  throwIfMissing(
    difference(ObjectKeys(confExample),
               DOMAIN checkedConf(ObjectAssign(e, c), allowEmptyValues)),
    allowEmptyValues)

\* ------------------------------------------------------------------------
\* configSync: one synchronous call, against the process environment e.
\* Each operator is the call from one statement on; it gives the completion
\* of the call and the process environment it leaves.
\* ------------------------------------------------------------------------

Ended(r, e) == [result |-> r, env |-> e]

\* return conf, after the export loop left x
Returned(x) == [result |-> Return(x.conf), env |-> x.env]

\* if (o.export) { ... } return conf
configSyncTail(opt, e, c) ==
  IF opt.export THEN Returned(configSyncExport(c, 1, e)) ELSE Ended(Return(c), e)

\* The export made before the validation: a call that fails validation has
\* exported all the same.
configSyncAssertedExported(opt, e, c, a) ==
  IF a.type = "throw" THEN Ended(a, configSyncTail(opt, e, c).env)
  ELSE configSyncTail(opt, e, c)

\* assertSafe(...) ended as a
configSyncAsserted(opt, e, c, a) ==
  IF a.type = "throw" THEN Ended(a, e) ELSE configSyncTail(opt, e, c)

\* const confExample = parseFile(o.example) ended as r3
configSyncFromExample(opt, e, c, r3) ==
  IF r3.type = "throw" THEN Ended(r3, e)
  ELSE configSyncAsserted(opt, e, c, assertSafe(c, r3.conf, opt.allowEmptyValues, e))

\* if (o.safe) { ... }
configSyncSafe(opt, e, c) ==
  IF opt.safe THEN configSyncFromExample(opt, e, c, parseFile(opt.example))
  ELSE configSyncTail(opt, e, c)

\* const confDefaults = parseFile(o.defaults) ended as r2
configSyncFromDefaults(opt, e, c, r2) ==
  IF r2.type = "throw" THEN Ended(r2, e)
  ELSE configSyncSafe(opt, e, configSyncDefaults(c, r2.conf))

\* const conf = parseFile(o.path) ended as r1; if (o.defaults) { ... }
configSyncFromPath(opt, e, r1) ==
  IF r1.type = "throw" THEN Ended(r1, e)
  ELSE IF opt.defaults # ""
       THEN configSyncFromDefaults(opt, e, r1.conf, parseFile(opt.defaults))
       ELSE configSyncSafe(opt, e, r1.conf)

configSync(opt, e) == configSyncFromPath(opt, e, parseFile(opt.path))

\* ------------------------------------------------------------------------
\* config: the code between two awaits runs in one step. Each operator gives
\* where the call stands next (pc), its conf object, its completion and the
\* process environment.
\* ------------------------------------------------------------------------

Pending == [type |-> "pending", conf |-> <<>>, error |-> NoError]

Failed(r, e) == [pc |-> "done", conf |-> <<>>, result |-> r, env |-> e]

Awaiting(at, c, e) == [pc |-> at, conf |-> c, result |-> Pending, env |-> e]

Resolved(x) == [pc |-> "done", conf |-> x.conf, result |-> Return(x.conf), env |-> x.env]

\* if (o.export) { ... } return conf
configTail(opt, c, e) ==
  IF opt.export THEN Resolved(configExport(c, 1, e))
  ELSE Resolved([conf |-> c, env |-> e])

\* if (o.safe) { await parseFileAsync(o.example) ...
configFromSafe(opt, c, e) ==
  IF opt.safe THEN Awaiting("example", c, e) ELSE configTail(opt, c, e)

\* if (o.defaults) { await parseFileAsync(o.defaults) ...
configFromDefaults(opt, c, e) ==
  IF opt.defaults # "" THEN Awaiting("defaults", c, e) ELSE configFromSafe(opt, c, e)

\* const conf = await parseFileAsync(o.path) settled as r
configAfterPath(opt, r, e) ==
  IF r.type = "throw" THEN Failed(r, e) ELSE configFromDefaults(opt, r.conf, e)

\* const confDefaults = await parseFileAsync(o.defaults) settled as r
configAfterDefaults(opt, c, r, e) ==
  IF r.type = "throw" THEN Failed(r, e)
  ELSE configFromSafe(opt, configDefaults(c, r.conf), e)

\* assertSafe(...) ended as a
configAsserted(opt, c, a, e) ==
  IF a.type = "throw" THEN Failed(a, e) ELSE configTail(opt, c, e)

\* const confExample = await parseFileAsync(o.example) settled as r
configAfterExample(opt, c, r, e) ==
  IF r.type = "throw" THEN Failed(r, e)
  ELSE configAsserted(opt, c, assertSafe(c, r.conf, opt.allowEmptyValues, e), e)

\* ------------------------------------------------------------------------
\* Options
\* ------------------------------------------------------------------------

defaultConfigOptions ==
  [path |-> ".env", export |-> FALSE, safe |-> FALSE, example |-> ".env.example",
   allowEmptyValues |-> FALSE, defaults |-> ".env.defaults"]

\* { ...defaultConfigOptions, ...options }
Resolve(options) ==
  [f \in DOMAIN defaultConfigOptions |->
     IF f \in DOMAIN options THEN options[f] ELSE defaultConfigOptions[f]]

\* An options argument that sets nothing.
NoOption == [f \in {} |-> FALSE]

\* The options a loader passes: loader l2 loads its own primary file; every
\* loader may ask for export, for safe mode (with or without
\* allowEmptyValues) and may switch the defaults file off.
OptionsOf(l) ==
  { p @@ x @@ s @@ d :
      p \in IF l = "l2" THEN {"path" :> ".env.local"} ELSE {NoOption},
      x \in {NoOption, "export" :> TRUE},
      s \in {NoOption, "safe" :> TRUE,
             ("safe" :> TRUE) @@ ("allowEmptyValues" :> TRUE)},
      d \in {NoOption, "defaults" :> ""} }

\* ------------------------------------------------------------------------
\* Initial states
\* ------------------------------------------------------------------------

FileSystem(primary, local, defaults, example) ==
  [p \in Paths |->
     CASE p = ".env" -> primary
       [] p = ".env.local" -> local
       [] p = ".env.defaults" -> defaults
       [] OTHER -> example]

NoEnv == [k \in {} |-> <<>>]

Envs == {NoEnv, kA :> Empty, kA :> <<"9">>, kB :> <<"9">>}

\* A call that does not repeat the call before it.
NotAgain == [same |-> FALSE, result |-> Pending]

\* Loader l calls variant v with the resolved options opt: the call repeats
\* the call of l before it when that one was of the same variant and had the
\* same options.
Again(l, v, opt) ==
  IF pc[l] = "done" /\ variant[l] = v /\ o[l] = opt
  THEN [same |-> TRUE, result |-> result[l]]
  ELSE NotAgain

\* Nobody has called parse.
NoParse == rawDotenv = <<>> /\ parsed = Pending

\* The callers of exists and existsSync.
Probes == {"c1", "c2"}

\* No call of exists: no path, no invocation of the callback.
NoProbe == [pc |-> "idle", path |-> "", called |-> <<>>]

\* No call of existsSync.
NoProbeSync == [pc |-> "idle", path |-> "", type |-> "none", value |-> FALSE, error |-> "null"]

\* Nobody has called exists or existsSync.
NoProbes ==
  /\ probe = [c \in Probes |-> NoProbe]
  /\ probeSync = [c \in Probes |-> NoProbeSync]

\* No loader has called configSync or config.
InitLoaders ==
  /\ ncalls = [l \in Loaders |-> 0]
  /\ pc = [l \in Loaders |-> "idle"]
  /\ variant = [l \in Loaders |-> "none"]
  /\ o = [l \in Loaders |-> Resolve(NoOption)]
  /\ conf = [l \in Loaders |-> <<>>]
  /\ result = [l \in Loaders |-> Pending]
  /\ again = [l \in Loaders |-> NotAgain]

\* One loader; every state of its three files.
Init ==
  /\ fs \in { FileSystem(a, NotFound, b, c) :
                a \in {NotFound, PermissionDenied, File(TxtA1), File(TxtAEmpty),
                       File(TxtBEmptyQuotes)},
                b \in {NotFound, Interrupted, File(TxtA2B3), File(TxtToString)},
                c \in {NotFound, PermissionDenied, File(TxtExampleBA)} }
  /\ readFileSyncIsFunction \in BOOLEAN
  /\ env \in Envs
  /\ env0 = env
  /\ loaders = {"l1"}
  /\ InitLoaders
  /\ NoParse
  /\ lstat = [p \in {} |-> ""]
  /\ NoProbes

\* Two loaders, each with a primary file of its own that gives A another
\* value; they share the defaults and the example file.
InitConc ==
  /\ fs \in { FileSystem(File(TxtA1), File(TxtA2), b, c) :
                b \in {NotFound, File(TxtA2B3)},
                c \in {NotFound, File(TxtExampleBA)} }
  /\ readFileSyncIsFunction = TRUE
  /\ env \in {NoEnv, kB :> <<"9">>}
  /\ env0 = env
  /\ loaders = Loaders
  /\ InitLoaders
  /\ NoParse
  /\ lstat = [p \in {} |-> ""]
  /\ NoProbes

\* ------------------------------------------------------------------------
\* Actions
\* ------------------------------------------------------------------------

\* One conf object shared by every call.
sharedConf(l) == conf["l1"]

\* const conf: the conf object of the call of l, local to the call.
ownConf(l) == conf[l]

\* The calls made so far by the loaders in S.
RECURSIVE CallsOf(_)
CallsOf(S) ==
  IF S = {} THEN 0
  ELSE LET l == CHOOSE x \in S : TRUE IN ncalls[l] + CallsOf(S \ {l})

CanCall(l) ==
  l \in loaders /\ pc[l] \in {"idle", "done"} /\ CallsOf(Loaders) < MaxCalls

\* The call of l, made with the resolved options opt, ended as x.
Complete(l, opt, x) ==
  /\ pc' = [pc EXCEPT ![l] = "done"]
  /\ variant' = [variant EXCEPT ![l] = "configSync"]
  /\ o' = [o EXCEPT ![l] = opt]
  /\ conf' = [conf EXCEPT ![l] = x.result.conf]
  /\ result' = [result EXCEPT ![l] = x.result]
  /\ env' = x.env

\* configSync(options) by loader l: the whole call is one step.
ConfigSync(l, options) ==
  /\ CanCall(l)
  /\ Complete(l, Resolve(options), configSync(Resolve(options), env))
  /\ ncalls' = [ncalls EXCEPT ![l] = @ + 1]
  /\ again' = [again EXCEPT ![l] = Again(l, "configSync", Resolve(options))]
  /\ UNCHANGED <<fs, readFileSyncIsFunction, env0, loaders, parseVars, existsVars>>

\* config(options) by loader l, up to its first await.
Config(l, options) ==
  /\ CanCall(l)
  /\ pc' = [pc EXCEPT ![l] = "path"]
  /\ variant' = [variant EXCEPT ![l] = "config"]
  /\ o' = [o EXCEPT ![l] = Resolve(options)]
  /\ conf' = [conf EXCEPT ![l] = <<>>]
  /\ result' = [result EXCEPT ![l] = Pending]
  /\ ncalls' = [ncalls EXCEPT ![l] = @ + 1]
  /\ again' = [again EXCEPT ![l] = Again(l, "config", Resolve(options))]
  /\ UNCHANGED <<fs, readFileSyncIsFunction, env0, loaders, env, parseVars, existsVars>>

\* The call of l goes on to x: its next await or its end.
Continue(l, x) ==
  /\ pc' = [pc EXCEPT ![l] = x.pc]
  /\ conf' = [conf EXCEPT ![l] = x.conf]
  /\ result' = [result EXCEPT ![l] = x.result]
  /\ env' = x.env
  /\ UNCHANGED <<fs, readFileSyncIsFunction, env0, loaders, ncalls, variant, o, again,
                 parseVars, existsVars>>

\* The read of o.path settles and config resumes.
ResumePath(l) ==
  /\ pc[l] = "path"
  /\ Continue(l, configAfterPath(o[l], parseFileAsync(o[l].path), env))

\* The read of o.defaults settles and config resumes.
ResumeDefaults(l) ==
  /\ pc[l] = "defaults"
  /\ Continue(l, configAfterDefaults(o[l], ownConf(l), parseFileAsync(o[l].defaults), env))

\* The read of o.example settles and config resumes.
ResumeExample(l) ==
  /\ pc[l] = "example"
  /\ Continue(l, configAfterExample(o[l], ownConf(l), parseFileAsync(o[l].example), env))

Next ==
  \E l \in Loaders :
    \/ \E options \in OptionsOf(l) : ConfigSync(l, options)
    \/ \E options \in OptionsOf(l) : Config(l, options)
    \/ ResumePath(l)
    \/ ResumeDefaults(l)
    \/ ResumeExample(l)

Spec == Init /\ [][Next]_vars

SpecConc == InitConc /\ [][Next]_vars

\* ------------------------------------------------------------------------
\* parse on its own: a caller hands parse a text
\* ------------------------------------------------------------------------

\* The most lines of a text.
MaxLines == 2

\* Lines of a .env file.
LineA1 == <<"A", "=", "1">>
LineA2 == <<"A", "=", "2">>
LineBEmpty == <<"B", "=">>
LineBEmptyDouble == <<"B", "=", "\"", "\"">>
LineBEmptySingle == <<"B", "=", "'", "'">>
LineComment == <<"#", "c">>
LineDigitFirst == <<"1", "A", "=", "3">>
LineMixedQuotes == <<"A", "=", "\"", "x", "'">>
LineEscaped == <<"A", "=", "\"", "x", "\\", "n", "y", "\"">>
LineOpens == <<"A", "=", "\"", "x">>
LineCloses == <<"y", "\"">>
LineInlineComment == <<"A", "=", " ", "1", " ", "#", "c">>
LineHashQuoted == <<"A", "=", "'", "x", "#", "y", "'">>
LineSpaces == <<" ", "A", " ", "B", " ", "=", "\t", "1">>
LineProto == <<"_", "_", "p", "r", "o", "t", "o", "_", "_", "=", "1">>

Lines ==
  {LineA1, LineA2, LineBEmpty, LineBEmptyDouble, LineBEmptySingle, LineComment,
   LineDigitFirst, LineMixedQuotes, LineEscaped, LineOpens, LineCloses,
   LineInlineComment, LineHashQuoted, LineSpaces, LineProto}

\* lines.join("\n")
RECURSIVE Join(_)
Join(lines) ==
  IF Len(lines) = 1 THEN lines[1]
  ELSE lines[1] \o <<"\n">> \o Join(Tail(lines))

\* The texts of one line up to MaxLines lines.
Texts ==
  { Join(ls) : ls \in UNION { [1..n -> Lines] : n \in 1..MaxLines } }

\* A caller holds a text and has not called parse yet.
InitParse ==
  /\ rawDotenv \in Texts
  /\ parsed = Pending
  /\ fs = FileSystem(NotFound, NotFound, NotFound, NotFound)
  /\ readFileSyncIsFunction = TRUE
  /\ env = NoEnv
  /\ env0 = env
  /\ loaders = {}
  /\ InitLoaders
  /\ lstat = [p \in {} |-> ""]
  /\ NoProbes

\* parse(rawDotenv): the whole call is one step.
Parse ==
  /\ parsed = Pending
  /\ parsed' = parse(rawDotenv)
  /\ UNCHANGED <<rawDotenv, loaderVars, existsVars>>

NextParse == Parse

SpecParse == InitParse /\ [][NextParse]_vars

\* ------------------------------------------------------------------------
\* The Node-compat exists(path, callback) and existsSync(path)
\* ------------------------------------------------------------------------

\* What Deno.lstat and Deno.lstatSync give for a path: the file information,
\* or an error.
FileInfo == "FileInfo"
LstatOutcomes == {FileInfo, "NotFound", "PermissionDenied"}

\* The path argument: a string, or a file URL.
PathArgs ==
  { [url |-> FALSE, pathname |-> "/a"],
    [url |-> FALSE, pathname |-> "/b"],
    [url |-> TRUE, pathname |-> "/a"] }

\* fromFileUrl(path): the path of a file URL.
fromFileUrl(url) == url.pathname

\* path = path instanceof URL ? fromFileUrl(path) : path
PathOf(arg) == IF arg.url THEN fromFileUrl(arg) ELSE arg.pathname

\* One invocation of the callback: callback(error, exists).
Callback(error, exists) == [error |-> error, exists |-> exists]

\* () => callback(null, true)
onFulfilled == <<Callback("null", TRUE)>>

\* (err) => { if (err instanceof Deno.errors.NotFound) { callback(null, false); }
\*            callback(err, false); }: the invocations of the callback, in order.
onRejected(err) ==
  (IF err = "NotFound" THEN <<Callback("null", FALSE)>> ELSE <<>>)
    \o <<Callback(err, FALSE)>>

\* Deno.lstat(path).then(onFulfilled, onRejected), once the promise settled
\* as outcome.
lstatThen(outcome) == IF outcome = FileInfo THEN onFulfilled ELSE onRejected(outcome)

\* existsSync(path), with Deno.lstatSync(path) ending as outcome.
existsSync(path, outcome) ==
  IF outcome = FileInfo
  THEN [pc |-> "done", path |-> path, type |-> "return", value |-> TRUE, error |-> "null"]
  ELSE IF outcome = "NotFound"
       THEN [pc |-> "done", path |-> path, type |-> "return", value |-> FALSE,
             error |-> "null"]
       ELSE [pc |-> "done", path |-> path, type |-> "throw", value |-> FALSE,
             error |-> outcome]

\* Two paths, each of which exists, does not exist, or cannot be looked at.
InitExists ==
  /\ lstat \in [{"/a", "/b"} -> LstatOutcomes]
  /\ NoProbes
  /\ NoParse
  /\ fs = FileSystem(NotFound, NotFound, NotFound, NotFound)
  /\ readFileSyncIsFunction = TRUE
  /\ env = NoEnv
  /\ env0 = env
  /\ loaders = {}
  /\ InitLoaders

\* exists(path, callback) by caller c: the call returns with the promise of
\* Deno.lstat pending.
Exists(c, arg) ==
  /\ probe[c].pc = "idle"
  /\ probe' = [probe EXCEPT ![c] = [pc |-> "pending", path |-> PathOf(arg), called |-> <<>>]]
  /\ UNCHANGED <<lstat, probeSync, loaderVars, parseVars>>

\* The promise of Deno.lstat of the call of c settles and its handler runs.
LstatSettles(c) ==
  /\ probe[c].pc = "pending"
  /\ probe' = [probe EXCEPT ![c] = [pc |-> "settled", path |-> probe[c].path,
                                     called |-> lstatThen(lstat[probe[c].path])]]
  /\ UNCHANGED <<lstat, probeSync, loaderVars, parseVars>>

\* existsSync(path) by caller c: the whole call is one step.
ExistsSync(c, arg) ==
  /\ probeSync[c].pc = "idle"
  /\ probeSync' = [probeSync EXCEPT ![c] = existsSync(PathOf(arg), lstat[PathOf(arg)])]
  /\ UNCHANGED <<lstat, probe, loaderVars, parseVars>>

NextExists ==
  \E c \in Probes :
    \/ \E arg \in PathArgs : Exists(c, arg)
    \/ LstatSettles(c)
    \/ \E arg \in PathArgs : ExistsSync(c, arg)

SpecExists == InitExists /\ [][NextExists]_vars

\* ------------------------------------------------------------------------
\* What the claims speak of
\* ------------------------------------------------------------------------

\* The call of loader l ends in this step.
Finishes(l) == pc'[l] = "done" /\ (pc[l] # "done" \/ ncalls'[l] # ncalls[l])

Done(l) == pc[l] = "done"

HasReturned(l) == pc[l] = "done" /\ result[l].type = "return"

\* A DotenvConfig as a map from its keys to their values.
AsMap(obj) == [k \in KeySet(obj) |-> Get(obj, k)]

\* What the variant of the call of l makes of the source at path.
SourceOf(v, path) == IF v = "configSync" THEN parseFile(path) ELSE parseFileAsync(path)

\* The maps of the three sources of a call with variant v and options opt:
\* the defaults count only when enabled.
PrimaryOf(v, opt) == SourceOf(v, opt.path)
DefaultsOf(v, opt) == IF opt.defaults # "" THEN SourceOf(v, opt.defaults) ELSE Return(<<>>)
ExampleOf(v, opt) == SourceOf(v, opt.example)

\* ------------------------------------------------------------------------
\* C1
\* ------------------------------------------------------------------------

\* C1: no step of a load (with export or without) changes or removes a key
\* that is defined in the process environment, a key defined with the empty
\* string included; a key a step adds is a key of the map of the call that
\* ends in the step, asked to export, with the value of that map.
C1_ExistingKeysKept ==
  [][ /\ \A k \in DOMAIN env : k \in DOMAIN env' /\ env'[k] = env[k]
      /\ \A k \in DOMAIN env' \ DOMAIN env :
           \E l \in Loaders :
             /\ Finishes(l) /\ o'[l].export /\ result'[l].type = "return"
             /\ HasOwn(result'[l].conf, k)
             /\ Get(result'[l].conf, k) = env'[k] ]_vars

\* A call with export returned a map that gives A another value than the
\* empty string A had in the environment: A is still empty, and B, which was
\* absent, has been added.
C1_Witness ==
  \E l \in Loaders :
    /\ HasReturned(l) /\ o[l].export
    /\ HasOwn(result[l].conf, kA) /\ Get(result[l].conf, kA) = <<"1">>
    /\ kA \in DOMAIN env /\ env[kA] = Empty
    /\ kB \notin DOMAIN env0 /\ kB \in DOMAIN env /\ env[kB] = <<"3">>

\* ------------------------------------------------------------------------
\* C2
\* ------------------------------------------------------------------------

\* C2: the map a call returns has exactly the keys of its primary map P and
\* its defaults map D, each key with the value of P when P has the key and
\* with the value of D otherwise.
C2_MergeIsUnion ==
  \A l \in Loaders :
    HasReturned(l) =>
      LET P == PrimaryOf(variant[l], o[l]).conf
          D == DefaultsOf(variant[l], o[l]).conf
      IN  AsMap(result[l].conf) =
            [k \in KeySet(P) \cup KeySet(D) |->
               IF HasOwn(P, k) THEN Get(P, k) ELSE Get(D, k)]

\* ------------------------------------------------------------------------
\* C3
\* ------------------------------------------------------------------------

\* The merged map of a call: the entries of P, then those of D whose key P
\* does not give and an object does not inherit.
MergedMap(P, D) ==
  [k \in KeySet(P) \cup (KeySet(D) \ ObjectPrototypeKeys) |->
     IF HasOwn(P, k) THEN Get(P, k) ELSE Get(D, k)]

MergedOf(v, opt) == MergedMap(PrimaryOf(v, opt).conf, DefaultsOf(v, opt).conf)

\* The three sources of the call were read and parsed.
SourcesOk(v, opt) ==
  /\ PrimaryOf(v, opt).type = "return"
  /\ DefaultsOf(v, opt).type = "return"
  /\ opt.safe => ExampleOf(v, opt).type = "return"

\* The environment-overlaid configuration: the process environment e united
\* with the merged map m, the value of e winning where both define a key.
Overlaid(m, e) ==
  [k \in DOMAIN m \cup DOMAIN e |-> IF k \in DOMAIN e THEN e[k] ELSE m[k]]

\* Key k is present in the configuration cfg: it is defined and, unless
\* empty values are allowed, its value is not empty.
PresentIn(k, cfg, allowEmptyValues) ==
  k \in DOMAIN cfg /\ (allowEmptyValues \/ cfg[k] # Empty)

\* C3: a call ends with MissingEnvVarsError exactly when it is in safe mode,
\* its sources were read and parsed, and some key of the example map is not
\* present in the environment-overlaid configuration; the process
\* environment counts whether or not export is asked for, and without safe
\* mode no call ends with MissingEnvVarsError.
C3_MissingExactly ==
  [][ \A l \in Loaders :
        Finishes(l) =>
          ( (result'[l].type = "throw" /\ result'[l].error.name = "MissingEnvVarsError")
            <=>
            ( /\ o'[l].safe
              /\ SourcesOk(variant'[l], o'[l])
              /\ \E k \in KeySet(ExampleOf(variant'[l], o'[l]).conf) :
                   ~PresentIn(k, Overlaid(MergedOf(variant'[l], o'[l]), env),
                              o'[l].allowEmptyValues) ) ) ]_vars

\* ------------------------------------------------------------------------
\* C4
\* ------------------------------------------------------------------------

\* C4: in safe-mode validation the value of the process environment is the
\* one looked at for a key that the environment and the merged map both
\* define: a required key whose value in the files is empty and whose value
\* in the process environment is not counts as present, so a call whose
\* required keys all have a value in the files or in the environment, and a
\* non-empty one in the environment when the two differ, does not end with
\* MissingEnvVarsError.
C4_EnvValueWins ==
  [][ \A l \in Loaders :
        ( /\ Finishes(l) /\ o'[l].safe /\ ~o'[l].allowEmptyValues
          /\ SourcesOk(variant'[l], o'[l])
          /\ \A k \in KeySet(ExampleOf(variant'[l], o'[l]).conf) :
               \/ k \in DOMAIN env /\ env[k] # Empty
               \/ /\ k \notin DOMAIN env
                  /\ k \in DOMAIN MergedOf(variant'[l], o'[l])
                  /\ MergedOf(variant'[l], o'[l])[k] # Empty )
        => result'[l].type = "return" ]_vars

\* ------------------------------------------------------------------------
\* C5
\* ------------------------------------------------------------------------

Absent(path) == fs[path].kind = "NotFound"

\* C5: a source that does not exist is an empty map and never an error: no
\* call ends with a not-found error; a call none of whose sources exists
\* returns the empty map; a call whose primary source does not exist returns
\* what its defaults give, one whose defaults do not exist what its primary
\* source gives; and with a missing example file safe mode never fails.
C5_NotFoundIsEmpty ==
  \A l \in Loaders :
    Done(l) =>
      /\ ~(result[l].type = "throw" /\ result[l].error.name = "NotFound")
      /\ ( /\ Absent(o[l].path)
           /\ o[l].defaults # "" => Absent(o[l].defaults)
           /\ o[l].safe => Absent(o[l].example) )
         => result[l] = Return(<<>>)
      /\ (Absent(o[l].path) /\ HasReturned(l))
         => AsMap(result[l].conf) = MergedMap(<<>>, DefaultsOf(variant[l], o[l]).conf)
      /\ (o[l].defaults # "" /\ Absent(o[l].defaults) /\ HasReturned(l))
         => result[l].conf = PrimaryOf(variant[l], o[l]).conf
      /\ (o[l].safe /\ Absent(o[l].example))
         => result[l].error.name # "MissingEnvVarsError"

\* A safe call that reads its files found none of the three and returned the
\* empty map.
C5_Witness ==
  \E l \in Loaders :
    /\ Done(l) /\ o[l].safe /\ o[l].defaults # ""
    /\ variant[l] = "config" \/ readFileSyncIsFunction
    /\ Absent(o[l].path) /\ Absent(o[l].defaults) /\ Absent(o[l].example)
    /\ result[l] = Return(<<>>)

\* ------------------------------------------------------------------------
\* C6
\* ------------------------------------------------------------------------

\* The call of l reads its files.
Reads(l) == variant[l] = "config" \/ readFileSyncIsFunction

\* Reading the file fails with an error other than not-found.
ReadFails(path) == fs[path].kind \notin {"File", "NotFound"}

\* C6: when a read that the call makes fails with an error other than
\* not-found, the call ends with that error and returns no map, whatever the
\* other sources hold. The call reads its primary source; it reads its
\* defaults, when they are enabled, once the primary source is read and
\* parsed; it reads its example file, in safe mode, once the defaults are.
C6_ReadFailureSurfaces ==
  \A l \in Loaders :
    (Done(l) /\ Reads(l)) =>
      /\ ReadFails(o[l].path)
         => result[l] = Throw(ReadError(fs[o[l].path].kind))
      /\ ( /\ o[l].defaults # "" /\ ReadFails(o[l].defaults)
           /\ PrimaryOf(variant[l], o[l]).type = "return" )
         => result[l] = Throw(ReadError(fs[o[l].defaults].kind))
      /\ ( /\ o[l].safe /\ ReadFails(o[l].example)
           /\ PrimaryOf(variant[l], o[l]).type = "return"
           /\ DefaultsOf(variant[l], o[l]).type = "return" )
         => result[l] = Throw(ReadError(fs[o[l].example].kind))

\* A call read and parsed its primary file and its defaults, could not read
\* its example file, and ended with the error of that read.
C6_Witness ==
  \E l \in Loaders :
    /\ Done(l) /\ Reads(l) /\ o[l].safe /\ o[l].defaults # ""
    /\ fs[o[l].path].kind = "File" /\ fs[o[l].defaults].kind = "File"
    /\ fs[o[l].example].kind = "PermissionDenied"
    /\ result[l] = Throw(ReadError("PermissionDenied"))

\* ------------------------------------------------------------------------
\* C7
\* ------------------------------------------------------------------------

\* C7: a call with export returns the map a call without export returns, the
\* merged map of its files: a key that the process environment defines with
\* another value is in the returned map with the value of the files.
C7_ExportKeepsMap ==
  \A l \in Loaders :
    (HasReturned(l) /\ o[l].export) =>
      AsMap(result[l].conf) = MergedOf(variant[l], o[l])

\* A call with export returned A with the value of its file while the
\* process environment holds another value for A.
C7_Witness ==
  \E l \in Loaders :
    /\ HasReturned(l) /\ o[l].export
    /\ HasOwn(result[l].conf, kA) /\ Get(result[l].conf, kA) = <<"1">>
    /\ kA \in DOMAIN env /\ env[kA] = <<"9">>

\* ------------------------------------------------------------------------
\* C8
\* ------------------------------------------------------------------------

\* The call of config by l ends in this step.
FinishesConfig(l) == Finishes(l) /\ variant'[l] = "config"

\* The call of config that ends in this step ends as configSync ends on the
\* same options, files and process environment, and leaves the same process
\* environment.
SameAsConfigSync(l) ==
  /\ result'[l] = configSync(o[l], env).result
  /\ env' = configSync(o[l], env).env

\* C8 as claimed: on every input config ends as configSync does.
C8_ConfigIsConfigSync ==
  [][\A l \in Loaders : FinishesConfig(l) => SameAsConfigSync(l)]_vars

\* C8, amended: where Deno.readFileSync is a function, config ends as
\* configSync does, with the same returned map or error and the same process
\* environment.
C8_ConfigIsConfigSyncWhereReadable ==
  [][\A l \in Loaders :
       (FinishesConfig(l) /\ readFileSyncIsFunction) => SameAsConfigSync(l)]_vars

\* A call of config that merged defaults, passed safe mode and exported ended
\* where Deno.readFileSync is a function.
C8_Witness ==
  \E l \in Loaders :
    /\ HasReturned(l) /\ variant[l] = "config" /\ readFileSyncIsFunction
    /\ o[l].safe /\ o[l].export /\ o[l].defaults # ""
    /\ HasOwn(result[l].conf, kB) /\ kB \notin DOMAIN env0 /\ kB \in DOMAIN env

\* ------------------------------------------------------------------------
\* C9
\* ------------------------------------------------------------------------

\* Each of the two loaders has made one call and both calls have ended.
BothDone == \A l \in Loaders : Done(l) /\ ncalls[l] = 1

\* The process environment that the call of first and then the call of
\* second leave, one after the other, from the initial environment.
InOrder(first, second) == configSync(o[second], configSync(o[first], env0).env).env

\* C9 as claimed: whatever the order in which the calls of the loaders are
\* scheduled, they leave the same process environment.
C9_OrderIndependent ==
  BothDone => (env = InOrder("l1", "l2") /\ env = InOrder("l2", "l1"))

\* C9, amended: under every interleaving a key once defined in the process
\* environment is never rewritten nor removed (the first writer wins); a call
\* that returned with export leaves every key of its map defined, and
\* repeating a call that returned changes nothing. Which value a key gets
\* that two loaders give different values depends on which call exports
\* first.
C9_FirstWriterWins ==
  /\ [](\A l \in Loaders :
          (HasReturned(l) /\ o[l].export) => KeySet(result[l].conf) \subseteq DOMAIN env)
  /\ [][ /\ \A k \in DOMAIN env : k \in DOMAIN env' /\ env'[k] = env[k]
         /\ \A l \in Loaders :
              (HasReturned(l) /\ Finishes(l) /\ o'[l] = o[l]) => env' = env ]_vars

\* Both loaders returned with export, their maps give A different values,
\* and A has the value of the second loader: it exported first.
C9_Witness ==
  /\ BothDone
  /\ \A l \in Loaders : HasReturned(l) /\ o[l].export /\ variant[l] = "config"
  /\ Get(result["l1"].conf, kA) = <<"1">>
  /\ Get(result["l2"].conf, kA) = <<"2">>
  /\ kA \notin DOMAIN env0 /\ env[kA] = <<"2">>

\* ------------------------------------------------------------------------
\* C10
\* ------------------------------------------------------------------------

\* The map a call with options opt returns when it runs alone and returns.
AloneMap(opt) == configSync([opt EXCEPT !.safe = FALSE, !.export = FALSE], env).result.conf

\* C10: under every interleaving of the calls of config, the conf object of
\* a call holds what the sources of that call give, at each await and at the
\* end: the map the call returns is the map it returns when it runs alone.
C10_OwnMaps ==
  \A l \in Loaders :
    variant[l] = "config" =>
      /\ pc[l] = "defaults" => conf[l] = parseFileAsync(o[l].path).conf
      /\ pc[l] = "example" => conf[l] = AloneMap(o[l])
      /\ HasReturned(l) => result[l].conf = AloneMap(o[l])

\* Two calls of config are suspended at the same time, each with the merged
\* map of its own files.
C10_Witness ==
  /\ \A l \in Loaders : variant[l] = "config" /\ pc[l] = "example"
  /\ Get(conf["l1"], kA) = <<"1">> /\ Get(conf["l2"], kA) = <<"2">>
  /\ HasOwn(conf["l1"], kB) /\ HasOwn(conf["l2"], kB)

\* ------------------------------------------------------------------------
\* C11
\* ------------------------------------------------------------------------

\* C11: a call that repeats the call of its loader before it (same variant,
\* same options, the same files, and between the two no change of the process
\* environment but the export of the first) ends as the first ended: with the
\* same map or with the same error.
C11_Deterministic ==
  \A l \in Loaders : (Done(l) /\ again[l].same) => result[l] = again[l].result

\* A call in safe mode with export returned a map for the second time; the
\* first call exported into the process environment.
C11_Witness ==
  \E l \in Loaders :
    /\ HasReturned(l) /\ again[l].same /\ o[l].safe /\ o[l].export
    /\ result[l].conf # <<>> /\ env # env0

\* ------------------------------------------------------------------------
\* C12
\* ------------------------------------------------------------------------

\* The characters of a key in the order of their code units.
CodeUnitOrder ==
  <<"0", "1", "2", "3", "4", "5", "6", "7", "8", "9",
    "A", "B", "C", "D", "E", "F", "G", "H", "I", "J", "K", "L", "M",
    "N", "O", "P", "Q", "R", "S", "T", "U", "V", "W", "X", "Y", "Z", "_",
    "a", "b", "c", "d", "e", "f", "g", "h", "i", "j", "k", "l", "m",
    "n", "o", "p", "q", "r", "s", "t", "u", "v", "w", "x", "y", "z">>

CodeUnit(c) == CHOOSE i \in DOMAIN CodeUnitOrder : CodeUnitOrder[i] = c

\* Key a comes before key b in sorted order.
RECURSIVE Precedes(_, _)
Precedes(a, b) ==
  IF a = <<>> THEN b # <<>>
  ELSE IF b = <<>> THEN FALSE
  ELSE IF a[1] = b[1] THEN Precedes(Tail(a), Tail(b))
  ELSE CodeUnit(a[1]) < CodeUnit(b[1])

Sorted(keys) == \A i, j \in DOMAIN keys : i < j => Precedes(keys[i], keys[j])

\* C12: the MissingEnvVarsError a call ends with carries the missing keys in
\* sorted order, whatever their order in the example file, with the
\* remediation hint.
C12_MissingSorted ==
  \A l \in Loaders :
    (Done(l) /\ result[l].type = "throw" /\ result[l].error.name = "MissingEnvVarsError")
    => Sorted(result[l].error.missing) /\ result[l].error.remedy

\* ------------------------------------------------------------------------
\* C19
\* ------------------------------------------------------------------------

\* C19: a step that ends a call with an error leaves the process environment
\* as it is, and a step changes the process environment only when it ends a
\* call that asked for export and returns: the reads, the merge and the
\* validation of a call come before its first write, so a call that ends
\* with an error has written nothing.
C19_ErrorLeavesEnv ==
  [][ /\ \A l \in Loaders : (Finishes(l) /\ result'[l].type = "throw") => env' = env
      /\ env' # env =>
           \E l \in Loaders : Finishes(l) /\ result'[l].type = "return" /\ o'[l].export ]_vars

\* The first call, with export, ended with MissingEnvVarsError; its merged
\* map has a key the process environment does not define, and the process
\* environment is what it was.
C19_Witness ==
  \E l \in Loaders :
    /\ Done(l) /\ ncalls[l] = 1 /\ o[l].export
    /\ result[l].type = "throw" /\ result[l].error.name = "MissingEnvVarsError"
    /\ \E k \in DOMAIN MergedOf(variant[l], o[l]) : k \notin DOMAIN env
    /\ env = env0

\* ------------------------------------------------------------------------
\* What the claims on parse speak of: the extraction as the specification
\* words it, position by position.
\* ------------------------------------------------------------------------

\* The lines of the text handed to parse that have the variable-start shape.
MatchingLines == {i \in DOMAIN Split(rawDotenv) : RE_VariableStart(Split(rawDotenv)[i])}

LineAt(i) == Split(rawDotenv)[i]

\* The first "=" of a line.
FirstEq(line) == MinOf({i \in DOMAIN line : line[i] = "="})

\* The key of a line: the run of characters that are no whitespace right
\* before the "=", whitespace between the two aside.
KeyEnd(line) == MaxOf({i \in 1..(FirstEq(line) - 1) : line[i] \notin WhiteSpace})

KeyBegin(line) ==
  MinOf({i \in 1..KeyEnd(line) : \A t \in i..KeyEnd(line) : line[t] \notin WhiteSpace})

KeyOf(line) == SubSeq(line, KeyBegin(line), KeyEnd(line))

\* Where the value of a line opens: after the "=" and the spaces behind it.
OpenAt(line) ==
  MinOf({i \in (FirstEq(line) + 1)..(Len(line) + 1) : i = Len(line) + 1 \/ line[i] # " "})

\* The value of the line is enclosed in matching quotes: it opens with a
\* quote character that occurs again later in the line.
Enclosed(line) ==
  /\ OpenAt(line) <= Len(line)
  /\ line[OpenAt(line)] \in Quote
  /\ \E c \in (OpenAt(line) + 1)..Len(line) : line[c] = line[OpenAt(line)]

\* The outermost closing quote: the last occurrence of the opening one.
CloseAt(line) ==
  MaxOf({c \in (OpenAt(line) + 1)..Len(line) : line[c] = line[OpenAt(line)]})

\* Where an unquoted value ends: before the first "#" or with the line.
HashAt(line) ==
  MinOf({h \in OpenAt(line)..(Len(line) + 1) : h = Len(line) + 1 \/ line[h] = "#"})

\* The value of a line: of a quoted value the content between the outermost
\* quotes with each escaped \n made a newline, of an unquoted value the text
\* up to the first "#" without the whitespace around it.
ValueOf(line) ==
  IF Enclosed(line)
  THEN expandNewlines(SubSeq(line, OpenAt(line) + 1, CloseAt(line) - 1))
  ELSE trim(SubSeq(line, OpenAt(line), HashAt(line) - 1))

\* Line i is the last matching line of the text that carries its key.
LastOfKey(i) ==
  /\ i \in MatchingLines
  /\ \A j \in MatchingLines : j > i => KeyOf(LineAt(j)) # KeyOf(LineAt(i))

\* Several matching lines carry the key of line i.
SeveralCarry(i) ==
  \E j \in MatchingLines : j # i /\ KeyOf(LineAt(j)) = KeyOf(LineAt(i))

\* parse returned a map that gives the key k the value v.
Stores(k, v) ==
  parsed.type = "return" /\ HasOwn(parsed.conf, k) /\ Get(parsed.conf, k) = v

\* ------------------------------------------------------------------------
\* C13
\* ------------------------------------------------------------------------

\* C13: a text without a line of the variable-start shape parses to the
\* empty map; every key of the map parse returns is the key of a line of that
\* shape; and when several lines of that shape carry the same key, parse
\* returns a map in which the key has the value of the last of them.
C13_MatchingLinesLastWins ==
  parsed # Pending =>
    /\ MatchingLines = {} => parsed = Return(<<>>)
    /\ parsed.type = "return" =>
         \A k \in KeySet(parsed.conf) : \E i \in MatchingLines : KeyOf(LineAt(i)) = k
    /\ \A i \in MatchingLines :
         (LastOfKey(i) /\ SeveralCarry(i)) => Stores(KeyOf(LineAt(i)), ValueOf(LineAt(i)))

\* ------------------------------------------------------------------------
\* C14
\* ------------------------------------------------------------------------

\* The value of the line is empty, in one of the three forms: nothing after
\* the "=", or a pair of double or of single quotes.
EmptyValue(line) ==
  SubSeq(line, FirstEq(line) + 1, Len(line)) \in {<<>>, <<"\"", "\"">>, <<"'", "'">>}

\* C14: an empty value is a value: parse of a text whose lines of the
\* variable-start shape all have an empty value, unquoted or quoted, returns
\* normally, and the map gives each of their keys the empty string.
C14_EmptyValuesAreValues ==
  ( /\ parsed # Pending
    /\ \A i \in MatchingLines : EmptyValue(LineAt(i)) )
  => \A i \in MatchingLines : Stores(KeyOf(LineAt(i)), Empty)

\* ------------------------------------------------------------------------
\* C15
\* ------------------------------------------------------------------------

\* A descriptive parse error that names the offending line.
ParseError(line) == [name |-> "ParseError", line |-> line]

\* C15: when parse fails, it fails with a parse error that names a line of
\* the text that has the variable-start shape, never with another runtime
\* error.
C15_MalformedLineIsParseError ==
  parsed.type = "throw" =>
    \E i \in MatchingLines : parsed.error = ParseError(LineAt(i))

\* ------------------------------------------------------------------------
\* C16
\* ------------------------------------------------------------------------

\* The last quote character of a line, of either kind.
LastQuoteAt(line) == MaxOf({c \in DOMAIN line : line[c] \in Quote})

\* parse took the value of the line for a quoted one: the line opens its
\* value with a quote character, and the map holds what stands between that
\* character and the last quote character of the line.
Unwrapped(line) ==
  /\ OpenAt(line) <= Len(line)
  /\ line[OpenAt(line)] \in Quote
  /\ LastQuoteAt(line) > OpenAt(line)
  /\ Stores(KeyOf(line),
            expandNewlines(SubSeq(line, OpenAt(line) + 1, LastQuoteAt(line) - 1)))

\* C16: parse unwraps a value as a quoted one only when the quote character
\* that closes it is the one that opens it.
C16_QuotesMatch ==
  \A i \in MatchingLines :
    (LastOfKey(i) /\ Unwrapped(LineAt(i)))
    => LineAt(i)[LastQuoteAt(LineAt(i))] = LineAt(i)[OpenAt(LineAt(i))]

\* ------------------------------------------------------------------------
\* C17
\* ------------------------------------------------------------------------

\* The text is one assignment whose quoted value spans several lines: a key,
\* "=", a quote character, a content with a newline and without a quote
\* character, and the same quote character at the end of the text.
MultiLineQuoted(text) ==
  /\ \E i \in DOMAIN text : text[i] = "="
  /\ FirstEq(text) > 1 /\ FirstEq(text) + 2 < Len(text)
  /\ \A t \in 1..(FirstEq(text) - 1) : text[t] \in IdentStart \cup Digit
  /\ text[1] \in IdentStart
  /\ text[FirstEq(text) + 1] \in Quote
  /\ text[Len(text)] = text[FirstEq(text) + 1]
  /\ \A t \in (FirstEq(text) + 2)..(Len(text) - 1) : text[t] \notin Quote
  /\ \E t \in (FirstEq(text) + 2)..(Len(text) - 1) : text[t] = "\n"

\* C17: parse of such a text returns the key with the whole content between
\* the quotes, newlines included.
C17_QuotedSpansLines ==
  (parsed # Pending /\ MultiLineQuoted(rawDotenv))
  => parsed = Return(<<[key |-> SubSeq(rawDotenv, 1, FirstEq(rawDotenv) - 1),
                        value |-> SubSeq(rawDotenv, FirstEq(rawDotenv) + 2,
                                         Len(rawDotenv) - 1)]>>)

\* ------------------------------------------------------------------------
\* C18
\* ------------------------------------------------------------------------

\* C18: the value the returned map holds for the key of a line of the
\* variable-start shape (the last line that carries the key) is the value of
\* that line: unquoted, the text after the "=" up to the first "#", trimmed;
\* quoted, the content between the outermost quotes with each escaped \n
\* made a newline and nothing else changed.
C18_StoredIsReference ==
  parsed.type = "return" =>
    \A i \in MatchingLines :
      (LastOfKey(i) /\ HasOwn(parsed.conf, KeyOf(LineAt(i))))
      => Get(parsed.conf, KeyOf(LineAt(i))) = ValueOf(LineAt(i))

\* ------------------------------------------------------------------------
\* C20
\* ------------------------------------------------------------------------

\* What the callback of exists is to be invoked with for an outcome of lstat.
Expected(outcome) ==
  IF outcome = FileInfo THEN Callback("null", TRUE)
  ELSE IF outcome = "NotFound" THEN Callback("null", FALSE)
  ELSE Callback(outcome, FALSE)

\* C20: once the lstat of a call of exists has settled, its callback has been
\* invoked exactly once: with (null, true) when the path exists, with
\* (null, false) when lstat reports not-found, with (err, false) for another
\* failure; and the boolean is the one existsSync returns for the same path.
C20_CallbackOnce ==
  \A c \in Probes :
    probe[c].pc = "settled" =>
      /\ probe[c].called = <<Expected(lstat[probe[c].path])>>
      /\ \A d \in Probes :
           (probeSync[d].type = "return" /\ probeSync[d].path = probe[c].path)
           => \A i \in DOMAIN probe[c].called :
                probe[c].called[i].exists = probeSync[d].value

====
